---------------------------- MODULE Spec2Model ----------------------------
(***************************************************************************)
(* A model of src/src/binance.py: the BinanceAPI client.                   *)
(*                                                                         *)
(* Text (query strings, rendered numbers) is a sequence of string tokens.  *)
(* A token is one character where the character matters ("&", "=", ".",    *)
(* " ", a decimal digit of a fraction) and otherwise an atom made only of  *)
(* characters urlencode leaves alone (a key, "BTCUSDT", an integer).       *)
(***************************************************************************)
EXTENDS Integers, Sequences, FiniteSets, TLC

\* ------------------------------------------------------------------ bounds

\* Largest number of optional keyword arguments one call passes.
MaxKwargs == 2

\* Number of BinanceAPI instances the process constructs.
MaxClients == 2

\* The remote server's clock runs from 1 up to MaxClock.
MaxClock == 3

\* ------------------------------------------------------------ Python values

\* Python's None, where a credential may hold it.
None == "<None>"

\* A float holds n billionths; an int holds n; a str holds the tokens s.
PyFloat(n) == [t |-> "float", n |-> n, s |-> <<>>]
PyInt(n) == [t |-> "int", n |-> n, s |-> <<>>]
PyText(s) == [t |-> "str", n |-> 0, s |-> s]

Nano == 10^9

RECURSIVE Pow10(_)
Pow10(k) == IF k = 0 THEN 1 ELSE 10 * Pow10(k - 1)

\* The `width` decimal digits of k, most significant first.
Digits(k, width) ==
    [i \in 1..width |-> ToString((k \div Pow10(width - i)) % 10)]

RECURSIVE StripZeros(_)
StripZeros(ds) ==
    IF Len(ds) > 1 /\ ds[Len(ds)] = "0"
    THEN StripZeros(SubSeq(ds, 1, Len(ds) - 1))
    ELSE ds

\* "{:.8f}".format(x): x rounded to 8 decimals, always 8 digits written.
FormatFixed8(n) ==
    LET r == (n + 5) \div 10
    IN  <<ToString(r \div Pow10(8)), ".">> \o Digits(r % Pow10(8), 8)

\* str(x) of a float: the shortest decimal that reads back as x
\* (positional notation, which Python uses for 1e-4 <= x < 1e16).
FloatRepr(n) ==
    <<ToString(n \div Nano), ".">> \o StripZeros(Digits(n % Nano, 9))

\* str(x).
PyStr(x) ==
    CASE x.t = "str" -> x.s
      [] x.t = "int" -> <<ToString(x.n)>>
      [] x.t = "float" -> FloatRepr(x.n)

\* BinanceAPI.formatNumber.
formatNumber(x) ==
    IF x.t = "float" THEN PyText(FormatFixed8(x.n)) ELSE PyText(PyStr(x))

\* ----------------------------------------------------------------- mappings
\* A dict is the sequence of its <<key, value>> items in insertion order,
\* with no key twice.

Keys(d) == {d[i][1] : i \in DOMAIN d}

\* d[k] = v: a key already present keeps its place.
DictSet(d, k, v) ==
    IF k \in Keys(d)
    THEN [i \in DOMAIN d |-> IF d[i][1] = k THEN <<k, v>> ELSE d[i]]
    ELSE Append(d, <<k, v>>)

RECURSIVE DictUpdate(_, _)
DictUpdate(d, kw) ==
    IF kw = <<>> THEN d
    ELSE DictUpdate(DictSet(d, kw[1][1], kw[1][2]), Tail(kw))

\* The characters of the keys the client sends, as code points.
KeyChars ==
    [ icebergQty       |-> <<105, 99, 101, 98, 101, 114, 103, 81, 116, 121>>,
      interval         |-> <<105, 110, 116, 101, 114, 118, 97, 108>>,
      limit            |-> <<108, 105, 109, 105, 116>>,
      origClientOrderId |-> <<111, 114, 105, 103, 67, 108, 105, 101, 110, 116,
                              79, 114, 100, 101, 114, 73, 100>>,
      price            |-> <<112, 114, 105, 99, 101>>,
      quantity         |-> <<113, 117, 97, 110, 116, 105, 116, 121>>,
      side             |-> <<115, 105, 100, 101>>,
      stopPrice        |-> <<115, 116, 111, 112, 80, 114, 105, 99, 101>>,
      symbol           |-> <<115, 121, 109, 98, 111, 108>>,
      timeInForce      |-> <<116, 105, 109, 101, 73, 110, 70, 111, 114, 99, 101>>,
      timestamp        |-> <<116, 105, 109, 101, 115, 116, 97, 109, 112>>,
      type             |-> <<116, 121, 112, 101>> ]

\* a < b for Python strings: by code point, a proper prefix first.
RECURSIVE SeqLess(_, _)
SeqLess(a, b) ==
    IF b = <<>> THEN FALSE
    ELSE IF a = <<>> THEN TRUE
    ELSE IF a[1] # b[1] THEN a[1] < b[1]
    ELSE SeqLess(Tail(a), Tail(b))

\* The place of each key among the keys, by that order.
KeyRank ==
    [k \in DOMAIN KeyChars |->
        Cardinality({j \in DOMAIN KeyChars : SeqLess(KeyChars[j], KeyChars[k])})]

KeyLess(j, k) == KeyRank[j] < KeyRank[k]

\* One item put in its place in a list sorted by key.
RECURSIVE Insert(_, _)
Insert(item, sorted) ==
    IF sorted = <<>> THEN <<item>>
    ELSE IF KeyLess(item[1], sorted[1][1]) THEN <<item>> \o sorted
    ELSE <<sorted[1]>> \o Insert(item, Tail(sorted))

\* The items of a dict in the order they were inserted.
InsertionOrder(items) == items

\* sorted(params.items()): the keys of a dict differ, so the items are
\* ordered by key alone.
RECURSIVE SortedItems(_)
SortedItems(items) ==
    IF items = <<>> THEN <<>>
    ELSE Insert(items[Len(items)], SortedItems(SubSeq(items, 1, Len(items) - 1)))

\* quote_plus of one token: a space becomes "+", a reserved character its
\* percent escape, anything else is left alone.
QuoteToken(c) ==
    CASE c = " " -> <<"+">>
      [] c = "&" -> <<"%", "2", "6">>
      [] c = "=" -> <<"%", "3", "D">>
      [] OTHER -> <<c>>

RECURSIVE QuotePlus(_)
QuotePlus(s) ==
    IF s = <<>> THEN <<>> ELSE QuoteToken(s[1]) \o QuotePlus(Tail(s))

\* urlencode(items): key=value pairs joined with "&"; a value that is not
\* a str goes through str() first.
RECURSIVE urlencode(_)
urlencode(items) ==
    IF items = <<>> THEN <<>>
    ELSE LET pair == <<items[1][1], "=">> \o QuotePlus(PyStr(items[1][2]))
         IN  IF Len(items) = 1 THEN pair
             ELSE pair \o <<"&">> \o urlencode(Tail(items))

\* hmac.new(secret, msg, sha256).hexdigest(), taken to be collision-free:
\* one token that names the key and the message it was computed from.
HexDigest(secret, msg) == ToString(<<secret, msg>>)

\* -------------------------------------------------------------------- state

VARIABLES
    options,    \* BinanceAPI.options, the dict of the class
    instances,  \* each constructed client -> the credentials its __init__ stored
    clock,      \* the remote server's time, in milliseconds
    call,       \* the operation that ran last, with its arguments
    wire,       \* the HTTP exchanges of that operation, in order
    result,     \* how that operation ended
    logged      \* what that operation handed to logging.error

vars == <<options, instances, clock, call, wire, result, logged>>

\* ------------------------------------------------------ the remote exchange

\* BINANCE_SETTINGS as __init__ may find it.
Configs ==
    { [k \in {"key", "secret"} |-> IF k = "key" THEN "k1" ELSE "s1"],
      [k \in {"key", "secret"} |-> IF k = "key" THEN "k2" ELSE "s2"],
      [k \in {"key", "secret"} |-> None],
      [k \in {"key"} |-> "k3"] }

EmptyObject == [kind |-> "object", val |-> <<>>]
ErrorBody == [kind |-> "object", val |-> [code |-> -1121, msg |-> "Invalid symbol."]]
NonJson == [kind |-> "nonjson", val |-> <<>>]
Object(fields) == [kind |-> "object", val |-> fields]
Array(rows) == [kind |-> "array", val |-> rows]

\* What the time endpoint answers at server time t.
TimeResponses(t) == {Object([serverTime |-> t]), ErrorBody}

PricesResponses ==
    { Array(<<[symbol |-> "BTCUSDT", price |-> "100"],
              [symbol |-> "ETHBTC", price |-> "0.05"]>>),
      ErrorBody, NonJson }

TickersResponses ==
    { Array(<<[symbol |-> "BTCUSDT", bidPrice |-> "99", askPrice |-> "101",
               bidQty |-> "1", askQty |-> "2"]>>),
      ErrorBody, NonJson }

DepthResponses ==
    { Object([bids |-> <<<<"99", "1">>, <<"98", "3">>>>, asks |-> <<<<"101", "2">>>>]),
      ErrorBody, NonJson }

KlinesResponses ==
    { Array(<< <<1000, "1", "2", "0.5", "1.5", "10", 2000, "15", 3>> >>),
      ErrorBody, NonJson }

AccountResponses ==
    { Object([balances |-> <<[asset |-> "BTC", free |-> "1", locked |-> "0"],
                             [asset |-> "ETH", free |-> "2", locked |-> "1"]>>]),
      EmptyObject,
      ErrorBody,
      Object([msg |-> "Invalid symbol.",
              balances |-> <<[asset |-> "BTC", free |-> "1", locked |-> "0"]>>]),
      NonJson }

OrderResponses ==
    { EmptyObject, Object([symbol |-> "BTCUSDT", orderId |-> 7]), ErrorBody, NonJson }

OrderListResponses ==
    { Array(<<[symbol |-> "BTCUSDT", orderId |-> 7]>>), ErrorBody, NonJson }

\* --------------------------------------------------------- calls and results

Returned(v) == [status |-> "returned", error |-> "", text |-> <<>>, value |-> v]
Raised(e, t) == [status |-> "raised", error |-> e, text |-> t, value |-> <<>>]

\* One requests.request(...) and the body that came back; apiKey is the
\* X-MBX-APIKEY header, None when no header is sent.
Exchange(method, path, query, apiKey, resp) ==
    [method |-> method, path |-> path, query |-> query, apiKey |-> apiKey,
     resp |-> resp]

\* "msg" in data: a key of a dict; the lists here hold no string.
HasMsg(data) == data.kind = "object" /\ "msg" \in DOMAIN data.val

\* The log of request and signedRequest after resp.json().
LogOf(data) == IF HasMsg(data) THEN <<data.val.msg>> ELSE <<>>

\* A server time read once and kept.
serverTimeCached(resp) == Returned(1)

\* BinanceAPI.serverTime, given the body of its GET.
serverTime(resp) ==
    IF resp.kind = "nonjson" THEN Raised("JSONDecodeError", <<>>)
    ELSE IF "serverTime" \notin DOMAIN resp.val THEN Raised("KeyError", <<"serverTime">>)
    ELSE Returned(resp.val.serverTime)

\* BinanceAPI.request: [wire, logged, out].
request(method, path, params, resp) ==
    LET x == Exchange(method, path, urlencode(params), None, resp)
    IN  IF resp.kind = "nonjson"
        THEN [wire |-> <<x>>, logged |-> <<>>, out |-> Raised("JSONDecodeError", <<>>)]
        ELSE [wire |-> <<x>>, logged |-> LogOf(resp), out |-> Returned(resp)]

\* The query with the signature computed before the timestamp is appended.
SignedQueryEarly(params, timestamp, secret) ==
    LET query0 == urlencode(SortedItems(params))
        signature == HexDigest(secret, query0)
    IN  query0 \o <<"&", "timestamp", "=", ToString(timestamp)>>
               \o <<"&", "signature", "=", signature>>

\* Lines 63-68 of signedRequest: the query string that is sent.
SignedQuery(params, timestamp, secret) ==
    LET query0 == urlencode(SortedItems(params))
        query1 == query0 \o <<"&", "timestamp", "=", ToString(timestamp)>>
        signature == HexDigest(secret, query1)
    IN  query1 \o <<"&", "signature", "=", signature>>

\* BinanceAPI.signedRequest: [wire, logged, out].
signedRequest(method, path, params, timeResp, resp) ==
    IF "apiKey" \notin DOMAIN options \/ "secret" \notin DOMAIN options
    THEN [wire |-> <<>>, logged |-> <<>>,
          out |-> Raised("ValueError", <<"Api key and secret must be set">>)]
    ELSE
    LET timeX == Exchange("GET", "/api/v3/time", <<>>, None, timeResp)
        timestamp == serverTime(timeResp)
    IN  IF timestamp.status = "raised"
        THEN [wire |-> <<timeX>>, logged |-> <<>>, out |-> timestamp]
        ELSE IF options["secret"] = None
        THEN [wire |-> <<timeX>>, logged |-> <<>>,
              out |-> Raised("AttributeError", <<"encode">>)]
        ELSE
        LET query == SignedQuery(params, timestamp.value, options["secret"])
            x == Exchange(method, path, query, options["apiKey"], resp)
        IN  IF resp.kind = "nonjson"
            THEN [wire |-> <<timeX, x>>, logged |-> <<>>,
                  out |-> Raised("JSONDecodeError", <<>>)]
            ELSE [wire |-> <<timeX, x>>, logged |-> LogOf(resp),
                  out |-> Returned(resp)]

\* ----------------------------------------------------------------- reshapes

\* The last row of a list whose field f holds v: a dict comprehension keeps
\* the value of the last item with a given key.
LastRow(rows, f, v) ==
    rows[CHOOSE i \in DOMAIN rows :
            /\ rows[i][f] = v
            /\ \A j \in DOMAIN rows : rows[j][f] = v => j <= i]

\* Iterating a dict yields its keys, which are strings; d["symbol"] on a
\* string raises TypeError.
pricesOf(data) ==
    IF data.kind = "object"
    THEN IF DOMAIN data.val = {} THEN Returned(<<>>)
         ELSE Raised("TypeError", <<"string indices must be integers">>)
    ELSE Returned([s \in {data.val[i].symbol : i \in DOMAIN data.val} |->
                      LastRow(data.val, "symbol", s).price])

tickersOf(data) ==
    IF data.kind = "object"
    THEN IF DOMAIN data.val = {} THEN Returned(<<>>)
         ELSE Raised("TypeError", <<"string indices must be integers">>)
    ELSE Returned([s \in {data.val[i].symbol : i \in DOMAIN data.val} |->
                      LET d == LastRow(data.val, "symbol", s)
                      IN  [bid |-> d.bidPrice, ask |-> d.askPrice,
                           bidQty |-> d.bidQty, askQty |-> d.askQty]])

\* {px: qty for px, qty in side}.
Book(side) ==
    [px \in {side[i][1] : i \in DOMAIN side} |-> LastRow(side, 1, px)[2]]

depthOf(data) ==
    IF data.kind = "array"
    THEN Raised("TypeError", <<"list indices must be integers or slices">>)
    ELSE IF "bids" \notin DOMAIN data.val THEN Raised("KeyError", <<"bids">>)
    ELSE IF "asks" \notin DOMAIN data.val THEN Raised("KeyError", <<"asks">>)
    ELSE Returned([bids |-> Book(data.val.bids), asks |-> Book(data.val.asks)])

\* Iterating a dict yields its keys; d[8] on a key shorter than nine
\* characters ("code", "msg") raises IndexError.
klinesOf(data) ==
    IF data.kind = "object"
    THEN IF DOMAIN data.val = {} THEN Returned(<<>>)
         ELSE Raised("IndexError", <<"string index out of range">>)
    ELSE Returned([i \in DOMAIN data.val |->
                      LET d == data.val[i]
                      IN  [openTime |-> d[1], open |-> d[2], high |-> d[3],
                           low |-> d[4], close |-> d[5], volume |-> d[6],
                           closeTime |-> d[7], quoteVolume |-> d[8],
                           numTrades |-> d[9]]])

\* The mapping of balances: asset -> {free, locked}.
BalanceMap(rows) ==
    [a \in {rows[i].asset : i \in DOMAIN rows} |->
        LET d == LastRow(rows, "asset", a)
        IN  [free |-> d.free, locked |-> d.locked]]

\* balances that returns what it can instead of raising.
balancesOfLenient(data) ==
    IF data.kind = "array"
    THEN Raised("AttributeError", <<"get">>)
    ELSE Returned(BalanceMap(IF "balances" \in DOMAIN data.val
                             THEN data.val.balances ELSE <<>>))

\* Lines 147-153 of balances, given what signedRequest returned.
balancesOf(data) ==
    IF HasMsg(data)
    THEN Raised("ValueError", <<"Error from exchange: ", data.val.msg>>)
    ELSE IF data.kind = "array"
    THEN Raised("AttributeError", <<"get">>)
    ELSE Returned(BalanceMap(IF "balances" \in DOMAIN data.val
                             THEN data.val.balances ELSE <<>>))

\* The path that always is the live one.
OrderPathLive(test) == "/api/v3/order"

\* Line 185 of order.
OrderPath(test) == IF test THEN "/api/v3/order/test" ELSE "/api/v3/order"

\* ------------------------------------------------------------------- inputs

Symbols == {"BTCUSDT"}
Sides == {"BUY"}
Intervals == {"1m"}

\* quantity and price as a caller may pass them.
OrderQuantities == {PyFloat(Nano), PyInt(5)}
OrderPrices == {PyFloat(123456789), PyText(<<"0", ".", "5">>)}

\* The value a caller passes for an optional argument.
KwargValue ==
    [ stopPrice        |-> PyFloat(1500000000),
      icebergQty       |-> PyFloat(250000000),
      origClientOrderId |-> PyText(<<"a", " ", "&">>),
      timestamp        |-> PyInt(0),
      limit            |-> PyInt(5) ]

\* **kwargs: up to MaxKwargs of the keys, in any order, none of them twice.
Kwargs(keys) ==
    UNION { { [i \in 1..n |-> <<ks[i], KwargValue[ks[i]]>>] :
                ks \in {f \in [1..n -> keys] :
                          \A i, j \in 1..n : i # j => f[i] # f[j]} } :
            n \in 0..MaxKwargs }

OrderKwargs == Kwargs({"stopPrice", "icebergQty", "timestamp"})
QueryKwargs == Kwargs({"origClientOrderId", "timestamp"})
LimitKwargs == Kwargs({"limit"})

\* ------------------------------------------------------------------ actions

Init ==
    /\ options = <<>>
    /\ instances = <<>>
    /\ clock = 1
    /\ call = [op |-> "", client |-> 0, test |-> FALSE, args |-> <<>>, params |-> <<>>]
    /\ wire = <<>>
    /\ result = Returned(<<>>)
    /\ logged = <<>>

\* The caller has taken the last operation's result: the client keeps
\* nothing of a finished call, and makes one call at a time.
Idle == call.op = ""

Put(o, k, v) == [x \in DOMAIN o \cup {k} |-> IF x = k THEN v ELSE o[x]]

Called(op, c, test, args, params) ==
    call' = [op |-> op, client |-> c, test |-> test, args |-> args, params |-> params]

\* BinanceAPI(): __init__ writes the class's options, the key first.
Construct ==
    /\ Idle
    /\ Len(instances) < MaxClients
    /\ \E settings \in Configs :
        /\ Called("__init__", Len(instances) + 1, FALSE, <<>>, <<>>)
        /\ wire' = <<>>
        /\ logged' = <<>>
        /\ clock' = clock
        /\ IF "key" \notin DOMAIN settings
           THEN /\ result' = Raised("KeyError", <<"key">>)
                /\ UNCHANGED <<options, instances>>
           ELSE IF "secret" \notin DOMAIN settings
           THEN /\ result' = Raised("KeyError", <<"secret">>)
                /\ options' = Put(options, "apiKey", settings["key"])
                /\ UNCHANGED instances
           ELSE /\ result' = Returned(<<>>)
                /\ options' = Put(Put(options, "apiKey", settings["key"]),
                                  "secret", settings["secret"])
                /\ instances' = Append(instances,
                                       [apiKey |-> settings["key"],
                                        secret |-> settings["secret"]])

\* An unsigned operation: one request, then its reshape.
Unsigned(op, c, path, params, resp, out) ==
    \E r \in {request("GET", path, params, resp)} :
        /\ Called(op, c, FALSE, params, params)
        /\ wire' = r.wire
        /\ logged' = r.logged
        /\ result' = IF r.out.status = "raised" THEN r.out ELSE out
        /\ UNCHANGED <<options, instances, clock>>

prices ==
    /\ Idle
    /\ \E c \in DOMAIN instances, resp \in PricesResponses :
        Unsigned("prices", c, "/api/v1/ticker/allPrices", <<>>, resp, pricesOf(resp))

tickers ==
    /\ Idle
    /\ \E c \in DOMAIN instances, resp \in TickersResponses :
        Unsigned("tickers", c, "/api/v1/ticker/allBookTickers", <<>>, resp,
                 tickersOf(resp))

depth ==
    /\ Idle
    /\ \E c \in DOMAIN instances, symbol \in Symbols, kwargs \in LimitKwargs,
          resp \in DepthResponses :
        \E params \in {DictUpdate(<< <<"symbol", PyText(<<symbol>>)>> >>, kwargs)} :
            Unsigned("depth", c, "/api/v1/depth", params, resp, depthOf(resp))

klines ==
    /\ Idle
    /\ \E c \in DOMAIN instances, symbol \in Symbols, interval \in Intervals,
          kwargs \in LimitKwargs, resp \in KlinesResponses :
        \E params \in {DictUpdate(<< <<"symbol", PyText(<<symbol>>)>>,
                                     <<"interval", PyText(<<interval>>)>> >>,
                                  kwargs)} :
            Unsigned("klines", c, "/api/v1/klines", params, resp, klinesOf(resp))

\* A signed operation: signedRequest, the server's clock moving on after
\* each answer of the time endpoint; balances reshapes what comes back.
Signed(op, c, test, method, path, args, params, timeResp, resp) ==
    \E r \in {signedRequest(method, path, params, timeResp, resp)} :
        /\ Called(op, c, test, args, params)
        /\ wire' = r.wire
        /\ logged' = r.logged
        /\ result' = IF r.out.status = "raised" \/ op # "balances" THEN r.out
                     ELSE balancesOf(r.out.value)
        /\ clock' = IF r.wire = <<>> THEN clock ELSE clock + 1
        /\ UNCHANGED <<options, instances>>

balances ==
    /\ Idle
    /\ clock < MaxClock
    /\ \E c \in DOMAIN instances, timeResp \in TimeResponses(clock),
          resp \in AccountResponses :
        Signed("balances", c, FALSE, "GET", "/api/v3/account", <<>>, <<>>,
               timeResp, resp)

order ==
    /\ Idle
    /\ clock < MaxClock
    /\ \E c \in DOMAIN instances, symbol \in Symbols, side \in Sides,
          quantity \in OrderQuantities, price \in OrderPrices, test \in BOOLEAN,
          kwargs \in OrderKwargs, timeResp \in TimeResponses(clock),
          resp \in OrderResponses :
        LET fixed == << <<"symbol", PyText(<<symbol>>)>>,
                        <<"side", PyText(<<side>>)>>,
                        <<"type", PyText(<<"LIMIT">>)>>,
                        <<"timeInForce", PyText(<<"GTC">>)>> >>
        IN  \E args \in {DictUpdate(fixed \o << <<"quantity", quantity>>,
                                                <<"price", price>> >>, kwargs)},
               params \in {DictUpdate(
                               fixed \o << <<"quantity", formatNumber(quantity)>>,
                                           <<"price", formatNumber(price)>> >>,
                               kwargs)} :
                Signed("order", c, test, "POST", OrderPath(test), args, params,
                       timeResp, resp)

\* orderStatus, cancel, openOrders, allOrders, myTrades: symbol and **kwargs
\* handed to signedRequest, its answer handed back.
SymbolQuery(op, method, path, responses) ==
    /\ Idle
    /\ clock < MaxClock
    /\ \E c \in DOMAIN instances, symbol \in Symbols, kwargs \in QueryKwargs,
          timeResp \in TimeResponses(clock), resp \in responses :
        \E params \in {DictUpdate(<< <<"symbol", PyText(<<symbol>>)>> >>, kwargs)} :
            Signed(op, c, FALSE, method, path, params, params, timeResp, resp)

orderStatus == SymbolQuery("orderStatus", "GET", "/api/v3/order", OrderResponses)
cancel == SymbolQuery("cancel", "DELETE", "/api/v3/order", OrderResponses)
openOrders == SymbolQuery("openOrders", "GET", "/api/v3/openOrders", OrderListResponses)
allOrders == SymbolQuery("allOrders", "GET", "/api/v3/allOrders", OrderListResponses)
myTrades == SymbolQuery("myTrades", "GET", "/api/v3/myTrades", OrderListResponses)

\* The caller takes the result of the operation that ran last.
Return ==
    /\ ~Idle
    /\ call' = [op |-> "", client |-> 0, test |-> FALSE, args |-> <<>>, params |-> <<>>]
    /\ wire' = <<>>
    /\ result' = Returned(<<>>)
    /\ logged' = <<>>
    /\ UNCHANGED <<options, instances, clock>>

Next ==
    \/ Construct
    \/ prices
    \/ tickers
    \/ depth
    \/ klines
    \/ balances
    \/ order
    \/ orderStatus
    \/ cancel
    \/ openOrders
    \/ allOrders
    \/ myTrades
    \/ Return

Spec == Init /\ [][Next]_vars

\* ------------------------------------------------------- reading the wire

TimePath == "/api/v3/time"

SignedOps ==
    {"balances", "order", "orderStatus", "cancel", "openOrders", "allOrders",
     "myTrades"}

\* The exchanges of the last operation that carry a signed query.
SignedSent == {i \in DOMAIN wire : call.op \in SignedOps /\ wire[i].path # TimePath}

Range(s) == {s[i] : i \in DOMAIN s}

First(q, tok) == CHOOSE i \in DOMAIN q : q[i] = tok /\ \A j \in 1..(i - 1) : q[j] # tok

\* A query string cut at each "&".
RECURSIVE SplitAmp(_)
SplitAmp(q) ==
    IF "&" \notin Range(q) THEN <<q>>
    ELSE <<SubSeq(q, 1, First(q, "&") - 1)>>
             \o SplitAmp(SubSeq(q, First(q, "&") + 1, Len(q)))

NonEmpty(seg) == seg # <<>>

\* The key=value parameters of a query string, in the order they are sent.
QueryParams(q) == SelectSeq(SplitAmp(q), NonEmpty)
ParamKey(seg) == seg[1]
ParamValue(seg) == SubSeq(seg, 3, Len(seg))

\* The values a query string carries for one key.
ValuesFor(q, k) ==
    LET ps == QueryParams(q)
    IN  {ParamValue(ps[i]) : i \in {j \in DOMAIN ps : ParamKey(ps[j]) = k}}

\* The time the time endpoint returned in the last operation.
FetchedTime == wire[1].resp.val.serverTime

\* The items of a set of pairs arranged by ascending key, whatever order
\* they were inserted in.
RECURSIVE Ascending(_)
Ascending(S) ==
    IF S = {} THEN <<>>
    ELSE LET m == CHOOSE x \in S :
                    \A y \in S \ {x} : SeqLess(KeyChars[x[1]], KeyChars[y[1]])
         IN  <<m>> \o Ascending(S \ {m})

\* The number of characters written after the decimal point.
Decimals(v) == IF "." \in Range(v) THEN Len(v) - First(v, ".") ELSE 0

\* ------------------------------------------------------------------ claims

\* C1: every signed request is preceded, in the same signedRequest call, by
\* a GET of the time endpoint, and the timestamp that signedRequest puts in
\* the query is the time that GET returned, which is the server's time of
\* this call and not of an earlier one.
C1_TimestampIsFreshlyFetched ==
    \A i \in SignedSent :
        LET ps == QueryParams(wire[i].query) IN
        /\ i = 2
        /\ wire[1].method = "GET"
        /\ wire[1].path = TimePath
        /\ "serverTime" \in DOMAIN wire[1].resp.val
        /\ FetchedTime = clock - 1
        /\ Len(ps) >= 2
        /\ ParamKey(ps[Len(ps) - 1]) = "timestamp"
        /\ ParamValue(ps[Len(ps) - 1]) = <<ToString(FetchedTime)>>

\* C1 witness: a signed request sent by a call that is not the first to
\* fetch the server's time.
C1_Witness ==
    /\ SignedSent # {}
    /\ FetchedTime > 1

\* C2: a signed call made while the key or the secret is absent or holds
\* no usable value raises before any HTTP request is made.
Unusable(o) ==
    \/ "apiKey" \notin DOMAIN o
    \/ "secret" \notin DOMAIN o
    \/ o["apiKey"] \in {None, ""}
    \/ o["secret"] \in {None, ""}

C2_MissingCredentialsFailBeforeNetwork ==
    (call.op \in SignedOps /\ Unusable(options)) =>
        (result.status = "raised" /\ wire = <<>>)

\* C3, as stated, for a client whose credentials are usable: an order()
\* call issues exactly one POST, to the test path when test is set and to
\* the live path otherwise.
Posts == {i \in DOMAIN wire : wire[i].method = "POST"}

C3_OrderIssuesExactlyOnePost ==
    (call.op = "order" /\ ~Unusable(options)) =>
        /\ Cardinality(Posts) = 1
        /\ \A i \in Posts :
              wire[i].path = (IF call.test THEN "/api/v3/order/test"
                              ELSE "/api/v3/order")

\* C3, amended: an order() call issues at most one POST and nothing after
\* it, exactly one when it returns to its caller; the POST goes to the test
\* path when test is set and to the live path otherwise, and a call with
\* test set sends nothing to the live path.
C3_OrderIssuesAtMostOnePost ==
    call.op = "order" =>
        /\ Cardinality(Posts) <= 1
        /\ result.status = "returned" => Cardinality(Posts) = 1
        /\ \A i \in DOMAIN wire :
              \/ i = 1 /\ wire[i].method = "GET" /\ wire[i].path = TimePath
              \/ i = 2 /\ i \in Posts
        /\ \A i \in Posts :
              wire[i].path = (IF call.test THEN "/api/v3/order/test"
                              ELSE "/api/v3/order")
        /\ call.test => \A i \in DOMAIN wire : wire[i].path # "/api/v3/order"

\* C3 witness: an order() call with test set that sent its POST and returned.
C3_Witness ==
    /\ call.op = "order"
    /\ call.test
    /\ result.status = "returned"
    /\ Posts = {2}

\* C4: when the account endpoint's body has a msg field, balances() raises
\* an error carrying that message and returns no mapping; when it has none,
\* balances() returns asset -> {free, locked} with one entry per asset of
\* the body's balances list.
C4_BalancesRaisesOnMsg ==
    (call.op = "balances" /\ SignedSent # {} /\ wire[2].resp.kind = "object") =>
        LET body == wire[2].resp
            rows == IF "balances" \in DOMAIN body.val THEN body.val.balances
                    ELSE <<>>
        IN  IF "msg" \in DOMAIN body.val
            THEN /\ result.status = "raised"
                 /\ result.error = "ValueError"
                 /\ body.val.msg \in Range(result.text)
            ELSE /\ result.status = "returned"
                 /\ DOMAIN result.value = {rows[i].asset : i \in DOMAIN rows}
                 /\ \A i \in DOMAIN rows :
                       result.value[rows[i].asset] =
                           [free |-> rows[i].free, locked |-> rows[i].locked]

\* C4 witness: balances() raised on a body that holds both a msg field and
\* a balances list.
C4_Witness ==
    /\ call.op = "balances"
    /\ SignedSent # {}
    /\ wire[2].resp.kind = "object"
    /\ {"msg", "balances"} \subseteq DOMAIN wire[2].resp.val
    /\ result.status = "raised"
    /\ result.error = "ValueError"

\* C5: for every operation other than balances, a body with a msg field is
\* logged and the operation returns to its caller instead of raising.
C5_ExchangeErrorIsLoggedNotRaised ==
    (/\ call.op \notin {"", "__init__", "balances"}
     /\ wire # <<>>
     /\ wire[Len(wire)].path # TimePath
     /\ HasMsg(wire[Len(wire)].resp)) =>
        /\ logged = <<wire[Len(wire)].resp.val.msg>>
        /\ result.status = "returned"

\* C6: a client signs with the key and the secret it was constructed with,
\* whatever was constructed or called since.
C6_CredentialsFixedAtConstruction ==
    \A i \in SignedSent :
        LET q == wire[i].query IN
        /\ wire[i].apiKey = instances[call.client].apiKey
        /\ q[Len(q)] = HexDigest(instances[call.client].secret,
                                 SubSeq(q, 1, Len(q) - 4))

\* C7: whatever optional parameters the caller passes, the query that is
\* sent holds exactly one timestamp parameter, and it is the fetched time.
C7_OnlyTheServerTimestamp ==
    \A i \in SignedSent :
        LET ps == QueryParams(wire[i].query) IN
        /\ Cardinality({j \in DOMAIN ps : ParamKey(ps[j]) = "timestamp"}) = 1
        /\ ValuesFor(wire[i].query, "timestamp") = {<<ToString(FetchedTime)>>}

\* C8: the query that is sent is the signed string followed by
\* &signature=<digest>: the digest is the HMAC, under the secret, of
\* everything sent before it, the timestamp is the last parameter that is
\* signed, and the signature the last that is sent.
C8_SignedStringIsSentString ==
    \A i \in SignedSent :
        LET q == wire[i].query
            n == Len(q)
        IN  /\ n >= 8
            /\ SubSeq(q, n - 3, n - 1) = <<"&", "signature", "=">>
            /\ q[n] = HexDigest(options["secret"], SubSeq(q, 1, n - 4))
            /\ SubSeq(q, n - 7, n - 4) =
                   <<"&", "timestamp", "=", ToString(FetchedTime)>>
            /\ "signature" \notin Range(SubSeq(q, 1, n - 4))

\* C8 witness: an order was sent with a signed query.
C8_Witness ==
    /\ call.op = "order"
    /\ SignedSent # {}
    /\ Len(call.params) >= 7

\* C9: the part of the query built from the mapping lists its parameters
\* by ascending key, and is the same for every order of insertion of the
\* same key/value pairs.
C9_SortedKeyEncoding ==
    \A i \in SignedSent :
        LET q == wire[i].query
            pre == SubSeq(q, 1, Len(q) - 8)
            ps == QueryParams(pre)
        IN  /\ Len(ps) = Len(call.params)
            /\ \A j \in 1..(Len(ps) - 1) :
                  SeqLess(KeyChars[ParamKey(ps[j])], KeyChars[ParamKey(ps[j + 1])])
            /\ pre = urlencode(Ascending(Range(call.params)))

\* C9 witness: a signed query for a mapping whose last inserted key sorts
\* before the one inserted just before it.
C9_Witness ==
    /\ SignedSent # {}
    /\ Len(call.params) >= 3
    /\ SeqLess(KeyChars[call.params[Len(call.params)][1]],
               KeyChars[call.params[Len(call.params) - 1][1]])

\* C10: every float among quantity, price, stopPrice and icebergQty of an
\* order is sent with exactly 8 digits after the decimal point, and every
\* other value in its default string form.
NumberFields == {"quantity", "price", "stopPrice", "icebergQty"}

C10_OrderNumbersHaveEightDecimals ==
    \A i \in SignedSent :
        call.op = "order" =>
            \A j \in DOMAIN call.args :
                LET k == call.args[j][1]
                    x == call.args[j][2]
                IN  (k \in NumberFields) =>
                        \A v \in ValuesFor(wire[i].query, k) :
                            IF x.t = "float" THEN Decimals(v) = 8
                            ELSE v = QuotePlus(PyStr(x))

=============================================================================
